---- MODULE Spec2Model ----
(***************************************************************************)
(* drf-chunked-upload: the chunked-upload session protocol.                *)
(*                                                                         *)
(* The state is the table of ChunkedUpload rows (db), the files of the     *)
(* storage backend (storage), the wall clock (now) and, for every server   *)
(* worker, the request it is handling: its position in the handler (pc),   *)
(* the request data it still needs (req), the model instance it loaded     *)
(* (obj), the SpooledTemporaryFile of append_chunk (content) and the       *)
(* response it produced (resp).                                            *)
(*                                                                         *)
(* A handler is cut into steps at its accesses to shared state: the row    *)
(* load, the clock read of `expired`, the file read, the truncating open,  *)
(* the file write, the row save, the rename and the transaction commit.    *)
(* Code between two such accesses only touches the worker's own data and   *)
(* belongs to the step of the access that follows it.                      *)
(***************************************************************************)
EXTENDS Integers, Sequences, FiniteSets, TLC

\* ------------------------------------------------------------------ bounds
MaxBlob     == 2        \* largest declared range end + 1 of a request
MaxChunk    == 1        \* largest chunk body, in bytes
MaxTime     == 2        \* clock ticks

Bytes == {0, 1}

\* -------------------------------------------------------- program constants
UPLOADING == 1
COMPLETE  == 2
INCOMPLETE_EXT == ".part"
\* settings: the expiration window in clock ticks, the upload limit in bytes
EXPIRATION_DELTA == 1
MAX_BYTES == 3
USER_RESTRICTED == TRUE
do_checksum_check == TRUE

HTTP_200_OK == 200
HTTP_400_BAD_REQUEST == 400
HTTP_404_NOT_FOUND == 404
HTTP_410_GONE == 410
HTTP_500_INTERNAL_SERVER_ERROR == 500

\* -------------------------------------------------------------- value sets
None == -1
AnonymousUser == "anon"
Users == {"alice", AnonymousUser}
\* the primary keys uuid4 can draw; a handler touches the row of its pk only
Ids == {1}
NoId == 0

\* a client file name is <<stem, extension>>; an absent name is <<"", "">>
NoFilename == <<"", "">>
Filenames == {<<"a", ".bin">>}

Chunks == UNION {[1 .. n -> Bytes] : n \in 0 .. MaxChunk}

VARIABLES now, db, storage, pc, req, obj, content, resp, declared

vars == <<now, db, storage, pc, req, obj, content, resp, declared>>


\* ----------------------------------------------------------------- helpers
is_authenticated(user) == user # AnonymousUser

\* os.path.splitext on a stored name <<base, extension>>
splitext(name) == <<name[1], name[2]>>

\* settings.default_upload_to
default_upload_to(id) == <<id, INCOMPLETE_EXT>>

\* hashlib: h.update over the bytes of the file, then hexdigest.  The digest
\* is modelled collision free: the bytes read as digits 1..2 in base 3.
RECURSIVE hexdigest(_)
hexdigest(bytes) ==
    IF bytes = <<>> THEN 0
    ELSE hexdigest(SubSeq(bytes, 1, Len(bytes) - 1)) * (Cardinality(Bytes) + 1)
         + bytes[Len(bytes)] + 1

\* AbstractChunkedUpload.expires_at
expires_at(o) == o.created_at + EXPIRATION_DELTA
\* expired with < for <=: a session is still valid at its expiry instant
expired_strict(o) == expires_at(o) < now
\* AbstractChunkedUpload.expired
expired(o) == expires_at(o) <= now

\* ChunkedUploadBaseView.get_queryset: the ids visible to the requester
get_queryset(user) ==
    IF USER_RESTRICTED /\ is_authenticated(user)
    THEN {id \in DOMAIN db : db[id].user = user}
    ELSE DOMAIN db

\* ChunkedUploadError(status, detail, offset=...) as put()/post()/get() turn
\* it into a response
ChunkedUploadError(status, detail, offset) ==
    [status |-> status, detail |-> detail, offset |-> offset]
\* a 200 response is the serialized row
Response(o) == [status |-> HTTP_200_OK, detail |-> "ok", offset |-> o.offset]
\* an exception that is no ChunkedUploadError leaves the view: Django's 500
ServerError == [status |-> HTTP_500_INTERNAL_SERVER_ERROR,
                detail |-> "server error", offset |-> None]
NoResponse == [status |-> 0, detail |-> "", offset |-> None]

NoObj == [id |-> NoId, filename |-> NoFilename, file |-> <<NoId, "">>,
          offset |-> 0, status |-> UPLOADING, created_at |-> 0,
          completed_at |-> None, user |-> AnonymousUser]

\* What a worker holds of its request.  start, end, total, chunk and checksum
\* are the request data the handler still reads.  method, pk, late and
\* loaded describe the request until its response is sent: the session it
\* named, whether that session had expired when the request arrived, and
\* whether the handler got the row.
NoReq == [method |-> "", pk |-> NoId, late |-> FALSE, loaded |-> FALSE,
          start |-> 0, end |-> 0, total |-> 0, chunk |-> <<>>,
          checksum |-> None]

Late(pk) == pk \in DOMAIN db /\ db[pk].created_at + EXPIRATION_DELTA <= now
About(method, pk, loaded) ==
    [NoReq EXCEPT !.method = method, !.pk = pk, !.late = Late(pk),
                  !.loaded = loaded]

\* ---------------------------------------------------------------- requests
\* Content-Range headers: Malformed stands for every header the pattern
\* rejects; the others are bytes start-end/total
Malformed == [ok |-> FALSE, start |-> 0, end |-> 0, total |-> 0]
Ranges == {[ok |-> TRUE, start |-> s, end |-> e, total |-> t] :
              s \in 0 .. MaxBlob, e \in 0 .. MaxBlob - 1, t \in 1 .. MAX_BYTES + 1}

\* PUT requests.  A request the handler rejects before it looks at a field
\* carries that field's first value only: the fields it never reads cannot
\* change what it does.  The requests with a total over the limit or a length
\* that is not the chunk's come with and without a pk and a filename.
PutRequests(users, totals, chunks) ==
    LET all == [user : users, pk : {NoId} \cup Ids, has_file : BOOLEAN,
                range : {Malformed} \cup Ranges, chunk : {<<>>} \cup chunks,
                filename : {NoFilename} \cup Filenames]
        zeros(c) == \A i \in 1 .. Len(c) : c[i] = 0
        first == CHOOSE u \in users : TRUE
        plain(r) == r.user = first /\ r.pk = NoId /\ r.filename = NoFilename
        named(r) == r.user = first /\ (r.pk = NoId \/ r.filename = NoFilename)
        size(r) == r.range.end - r.range.start + 1
    IN  {q : q \in {r \in all :
           \/ ~r.has_file /\ r.range = Malformed /\ r.chunk = <<>> /\ plain(r)
           \/ r.has_file /\ r.range = Malformed /\ r.chunk = <<>> /\ plain(r)
           \/ r.has_file /\ r.range.ok /\ r.range.total > MAX_BYTES
                /\ r.range.start = 0 /\ size(r) = Len(r.chunk) /\ zeros(r.chunk)
                /\ named(r)
           \/ r.has_file /\ r.range.ok /\ r.range.total = MAX_BYTES
                /\ size(r) # Len(r.chunk) /\ r.range.start = 0 /\ zeros(r.chunk)
                /\ named(r)
           \/ r.has_file /\ r.range.ok /\ r.range.total \in totals
                /\ size(r) = Len(r.chunk) /\ r.chunk \in chunks
                /\ \/ r.pk # NoId /\ r.filename = NoFilename
                   \/ r.pk = NoId /\ r.filename # NoFilename
                   \/ r.pk = NoId /\ r.filename = NoFilename
                        /\ r.user = first /\ zeros(r.chunk)}}

\* The digests of the files up to MaxBlob bytes.
Digests == {hexdigest(b) : b \in UNION {[1 .. n -> Bytes] : n \in 0 .. MaxBlob}}

\* POST requests: with a pk the request completes that upload and its file
\* field is not read; without one it uploads a whole file.  A whole-file
\* request declares no digest, the digest of its file or another one.
PostRequests(users, chunks, digests) ==
    LET all == [user : users, pk : {NoId} \cup Ids, has_file : BOOLEAN,
                chunk : {<<>>} \cup chunks, filename : {NoFilename} \cup Filenames,
                checksum : {None, hexdigest(<<>>)} \cup digests
                             \cup {hexdigest(c) : c \in chunks}]
        first == CHOOSE u \in users : TRUE
        zeros(c) == \A i \in 1 .. Len(c) : c[i] = 0
    IN  {q : q \in {r \in all :
           \/ r.pk # NoId /\ ~r.has_file /\ r.chunk = <<>> /\ r.filename = NoFilename
                /\ r.checksum \in {None} \cup digests
                /\ (r.checksum = None => r.user = first)
           \/ r.pk = NoId /\ ~r.has_file /\ r.chunk = <<>> /\ r.filename = NoFilename
                /\ r.checksum = None /\ r.user = first
           \/ r.pk = NoId /\ r.has_file /\ r.filename = NoFilename
                /\ r.checksum = None /\ r.user = first /\ zeros(r.chunk)
           \/ r.pk = NoId /\ r.has_file /\ r.filename # NoFilename
                /\ r.chunk \in chunks
                /\ r.checksum \in {None, hexdigest(r.chunk), hexdigest(<<>>)}}}

\* GET requests: one upload or the list
GetRequests(users) == [user : users, pk : {NoId} \cup Ids]

\* The handler returns `response`; `about` is what is kept of the request.
Answer(p, about, response) ==
    /\ pc' = [pc EXCEPT ![p] = "done"]
    /\ resp' = [resp EXCEPT ![p] = response]
    /\ req' = [req EXCEPT ![p] = [NoReq EXCEPT !.method = about.method,
                                                !.pk = about.pk,
                                                !.late = about.late,
                                                !.loaded = about.loaded]]
    /\ obj' = [obj EXCEPT ![p] = NoObj]
    /\ content' = [content EXCEPT ![p] = <<>>]

\* serializer.is_valid(): filename is required and the file must not be empty
serializer_is_valid(filename, chunk) == filename # NoFilename /\ Len(chunk) > 0

\* serializer.save(user=user, offset=chunk.size): the file is stored under
\* upload_to and the row inserted
NewRow(id, user, filename, chunk) ==
    [id |-> id, filename |-> filename, file |-> default_upload_to(id),
     offset |-> Len(chunk), status |-> UPLOADING, created_at |-> now,
     completed_at |-> None,
     user |-> IF is_authenticated(user) THEN user ELSE "none"]

\* The history of a session (declared): total is T while every accepted range
\* lay inside 0..T-1 and declared the total T and the first one started at 0,
\* None otherwise; end is the end of the last accepted range.
FirstDeclared(start, end, total) ==
    [total |-> IF start = 0 /\ end <= total - 1 THEN total ELSE None, end |-> end]
NextDeclared(before, end, total) ==
    [total |-> IF before.total = total /\ end <= total - 1 THEN total ELSE None,
     end |-> end]

\* The state after the server started: no rows, no files, idle workers.
Start(workers) ==
    /\ now = 0
    /\ db = << >>
    /\ storage = << >>
    /\ pc = [p \in workers |-> "idle"]
    /\ req = [p \in workers |-> NoReq]
    /\ obj = [p \in workers |-> NoObj]
    /\ content = [p \in workers |-> <<>>]
    /\ resp = [p \in workers |-> NoResponse]
    /\ declared = << >>

\* two workers handle requests concurrently
Workers == {1, 2}
Init == Start(Workers)
\* one worker: requests are handled one at a time
SeqWorkers == {1}
InitSeq == Start(SeqWorkers)

\* The clock advances.
Tick ==
    /\ now < MaxTime
    /\ now' = now + 1
    /\ UNCHANGED <<db, storage, pc, req, obj, content, resp, declared>>

\* uuid.uuid4: an id no row has
FreshIds == Ids \ DOMAIN db

\* PutChunkStart without the comparison of chunk.size with the declared
\* length (line 169)
PutChunkStart_NoSizeCheck(p, r, whole, checksum) ==
    LET start == IF whole THEN 0 ELSE r.range.start
        total == IF whole THEN Len(r.chunk) ELSE r.range.total
        end   == IF whole THEN total - 1 ELSE r.range.end
        chunk_size == end - start + 1
        method == IF whole THEN "POST" ELSE "PUT"
        keep(loaded) == [About(method, r.pk, loaded) EXCEPT
                            !.start = start, !.end = end, !.total = total,
                            !.chunk = r.chunk, !.checksum = checksum]
        BadRequest(detail) ==
            /\ Answer(p, About(method, r.pk, FALSE),
                      ChunkedUploadError(HTTP_400_BAD_REQUEST, detail, None))
            /\ UNCHANGED <<db, storage, declared>>
    IN
    IF ~r.has_file THEN BadRequest("No chunk file was submitted")
    ELSE IF ~whole /\ ~r.range.ok THEN BadRequest("Error in request headers")
    ELSE IF MAX_BYTES # None /\ total > MAX_BYTES
        THEN BadRequest("Size of file exceeds the limit")
    ELSE IF r.pk # NoId THEN
        IF r.pk \in get_queryset(r.user) THEN
            /\ pc' = [pc EXCEPT ![p] = "put_check"]
            /\ req' = [req EXCEPT ![p] = keep(TRUE)]
            /\ obj' = [obj EXCEPT ![p] = db[r.pk]]
            /\ UNCHANGED <<db, storage, content, resp, declared>>
        ELSE
            /\ Answer(p, About(method, r.pk, FALSE),
                      ChunkedUploadError(HTTP_404_NOT_FOUND, "Not found.", None))
            /\ UNCHANGED <<db, storage, declared>>
    ELSE IF ~serializer_is_valid(r.filename, r.chunk)
        THEN BadRequest("serializer.errors")
    ELSE
        /\ FreshIds # {}
        /\ LET id == CHOOSE i \in FreshIds : \A j \in FreshIds : i <= j
               row == NewRow(id, r.user, r.filename, r.chunk)
           IN  /\ db' = db @@ (id :> row)
               /\ storage' = storage @@ (row.file :> r.chunk)
               /\ declared' = declared @@ (id :> FirstDeclared(start, end, total))
               /\ IF whole
                  THEN \* back in _post, lines 242-255
                       IF do_checksum_check /\ checksum = None
                       THEN Answer(p, About(method, r.pk, TRUE),
                                   ChunkedUploadError(HTTP_400_BAD_REQUEST,
                                       "Both 'id' and 'md5' are required", None))
                       ELSE /\ pc' = [pc EXCEPT ![p] = "post_check"]
                            /\ req' = [req EXCEPT ![p] = keep(TRUE)]
                            /\ obj' = [obj EXCEPT ![p] = row]
                            /\ UNCHANGED <<content, resp>>
                  ELSE Answer(p, About(method, r.pk, TRUE), Response(row))

\* _put_chunk up to its first access to shared state: the request checks
\* (lines 133-175), then either get_object_or_404 (line 182) or the creation
\* of a session (lines 198-209).
PutChunkStart(p, r, whole, checksum) ==
    LET start == IF whole THEN 0 ELSE r.range.start
        total == IF whole THEN Len(r.chunk) ELSE r.range.total
        end   == IF whole THEN total - 1 ELSE r.range.end
        chunk_size == end - start + 1
        method == IF whole THEN "POST" ELSE "PUT"
        keep(loaded) == [About(method, r.pk, loaded) EXCEPT
                            !.start = start, !.end = end, !.total = total,
                            !.chunk = r.chunk, !.checksum = checksum]
        BadRequest(detail) ==
            /\ Answer(p, About(method, r.pk, FALSE),
                      ChunkedUploadError(HTTP_400_BAD_REQUEST, detail, None))
            /\ UNCHANGED <<db, storage, declared>>
    IN
    IF ~r.has_file THEN BadRequest("No chunk file was submitted")
    ELSE IF ~whole /\ ~r.range.ok THEN BadRequest("Error in request headers")
    ELSE IF MAX_BYTES # None /\ total > MAX_BYTES
        THEN BadRequest("Size of file exceeds the limit")
    ELSE IF Len(r.chunk) # chunk_size
        THEN BadRequest("File size doesn't match headers")
    ELSE IF r.pk # NoId THEN
        IF r.pk \in get_queryset(r.user) THEN
            /\ pc' = [pc EXCEPT ![p] = "put_check"]
            /\ req' = [req EXCEPT ![p] = keep(TRUE)]
            /\ obj' = [obj EXCEPT ![p] = db[r.pk]]
            /\ UNCHANGED <<db, storage, content, resp, declared>>
        ELSE
            /\ Answer(p, About(method, r.pk, FALSE),
                      ChunkedUploadError(HTTP_404_NOT_FOUND, "Not found.", None))
            /\ UNCHANGED <<db, storage, declared>>
    ELSE IF ~serializer_is_valid(r.filename, r.chunk)
        THEN BadRequest("serializer.errors")
    ELSE
        /\ FreshIds # {}
        /\ LET id == CHOOSE i \in FreshIds : \A j \in FreshIds : i <= j
               row == NewRow(id, r.user, r.filename, r.chunk)
           IN  /\ db' = db @@ (id :> row)
               /\ storage' = storage @@ (row.file :> r.chunk)
               /\ declared' = declared @@ (id :> FirstDeclared(start, end, total))
               /\ IF whole
                  THEN \* back in _post, lines 242-255
                       IF do_checksum_check /\ checksum = None
                       THEN Answer(p, About(method, r.pk, TRUE),
                                   ChunkedUploadError(HTTP_400_BAD_REQUEST,
                                       "Both 'id' and 'md5' are required", None))
                       ELSE /\ pc' = [pc EXCEPT ![p] = "post_check"]
                            /\ req' = [req EXCEPT ![p] = keep(TRUE)]
                            /\ obj' = [obj EXCEPT ![p] = row]
                            /\ UNCHANGED <<content, resp>>
                  ELSE Answer(p, About(method, r.pk, TRUE), Response(row))

\* PUT /uploads/ and PUT /uploads/{pk}/ arrive: put -> _put -> _put_chunk.
PutRequest(p, requests) ==
    /\ pc[p] = "idle"
    /\ \E r \in requests : PutChunkStart(p, r, FALSE, None)
    /\ UNCHANGED now

\* PutCheck without the offset comparison of line 188
PutCheck_NoOffsetCheck(p) ==
    /\ pc[p] = "put_check"
    /\ IF expired(obj[p]) THEN
           Answer(p, req[p], ChunkedUploadError(HTTP_410_GONE,
                                                "Upload has expired", None))
       ELSE IF obj[p].status = COMPLETE THEN
           Answer(p, req[p], ChunkedUploadError(HTTP_400_BAD_REQUEST,
                       "Upload has already been marked as complete", None))
       ELSE
           /\ pc' = [pc EXCEPT ![p] = "append_read"]
           /\ UNCHANGED <<req, obj, content, resp>>
    /\ UNCHANGED <<now, db, storage, declared>>

\* PutCheck without the status test of is_valid_chunked_upload
PutCheck_NoCompleteCheck(p) ==
    /\ pc[p] = "put_check"
    /\ IF expired(obj[p]) THEN
           Answer(p, req[p], ChunkedUploadError(HTTP_410_GONE,
                                                "Upload has expired", None))
       ELSE IF obj[p].offset # req[p].start THEN
           Answer(p, req[p], ChunkedUploadError(HTTP_400_BAD_REQUEST,
                       "Offsets do not match", obj[p].offset))
       ELSE
           /\ pc' = [pc EXCEPT ![p] = "append_read"]
           /\ UNCHANGED <<req, obj, content, resp>>
    /\ UNCHANGED <<now, db, storage, declared>>

\* is_valid_chunked_upload, then the offset check of _put_chunk.
PutCheck(p) ==
    /\ pc[p] = "put_check"
    /\ IF expired(obj[p]) THEN
           Answer(p, req[p], ChunkedUploadError(HTTP_410_GONE,
                                                "Upload has expired", None))
       ELSE IF obj[p].status = COMPLETE THEN
           Answer(p, req[p], ChunkedUploadError(HTTP_400_BAD_REQUEST,
                       "Upload has already been marked as complete", None))
       ELSE IF obj[p].offset # req[p].start THEN
           Answer(p, req[p], ChunkedUploadError(HTTP_400_BAD_REQUEST,
                       "Offsets do not match", obj[p].offset))
       ELSE
           /\ pc' = [pc EXCEPT ![p] = "append_read"]
           /\ UNCHANGED <<req, obj, content, resp>>
    /\ UNCHANGED <<now, db, storage, declared>>

\* append_chunk, lines 105-109: the stored file and then the chunk are copied
\* to the temporary file.  Reading a name the storage does not hold raises.
\* The files of the model stay within MaxBlob bytes.
AppendRead(p) ==
    /\ pc[p] = "append_read"
    /\ IF obj[p].file \in DOMAIN storage THEN
           /\ Len(storage[obj[p].file]) + Len(req[p].chunk) <= MaxBlob
           /\ content' = [content EXCEPT ![p] = storage[obj[p].file] \o req[p].chunk]
           /\ pc' = [pc EXCEPT ![p] = "append_open"]
           /\ UNCHANGED <<req, obj, resp>>
       ELSE Answer(p, req[p], ServerError)
    /\ UNCHANGED <<now, db, storage, declared>>

\* append_chunk, line 113: storage.open(name, "wb") creates or truncates.
AppendOpen(p) ==
    /\ pc[p] = "append_open"
    /\ storage' = [n \in DOMAIN storage \cup {obj[p].file} |->
                      IF n = obj[p].file THEN <<>> ELSE storage[n]]
    /\ pc' = [pc EXCEPT ![p] = "append_write"]
    /\ UNCHANGED <<now, db, req, obj, content, resp, declared>>

\* AppendWrite that writes the chunk alone, not the copy of the file plus it
AppendWrite_ChunkOnly(p) ==
    /\ pc[p] = "append_write"
    /\ storage' = [n \in DOMAIN storage \cup {obj[p].file} |->
                      IF n = obj[p].file THEN req[p].chunk ELSE storage[n]]
    /\ pc' = [pc EXCEPT ![p] = "append_save"]
    /\ UNCHANGED <<now, db, req, obj, content, resp, declared>>

\* append_chunk, lines 114-118: the temporary copy is written and flushed.
AppendWrite(p) ==
    /\ pc[p] = "append_write"
    /\ storage' = [n \in DOMAIN storage \cup {obj[p].file} |->
                      IF n = obj[p].file THEN content[p] ELSE storage[n]]
    /\ pc' = [pc EXCEPT ![p] = "append_save"]
    /\ UNCHANGED <<now, db, req, obj, content, resp, declared>>

\* AppendSave with offset = chunk_size for offset += chunk_size
AppendSave_OffsetAssigned(p) ==
    /\ pc[p] = "append_save"
    /\ LET chunk_size == req[p].end - req[p].start + 1
           o == [obj[p] EXCEPT !.offset = chunk_size]
           id == o.id
       IN  /\ db' = [db EXCEPT ![id] = o]
           /\ declared' = [declared EXCEPT
                             ![id] = NextDeclared(@, req[p].end, req[p].total)]
           /\ Answer(p, req[p], Response(o))
    /\ UNCHANGED <<now, storage>>

\* append_chunk, lines 120-129: the offset advances by chunk_size and the
\* instance, every field of it, is saved; _put answers 200.
AppendSave(p) ==
    /\ pc[p] = "append_save"
    /\ LET chunk_size == req[p].end - req[p].start + 1
           o == [obj[p] EXCEPT !.offset = @ + chunk_size]
           id == o.id
       IN  /\ db' = [db EXCEPT ![id] = o]
           /\ declared' = [declared EXCEPT
                             ![id] = NextDeclared(@, req[p].end, req[p].total)]
           /\ Answer(p, req[p], Response(o))
    /\ UNCHANGED <<now, storage>>

\* POST /uploads/ and POST /uploads/{pk}/ arrive: post -> _post up to its
\* first access to shared state (lines 233-260).
PostRequest(p, requests) ==
    /\ pc[p] = "idle"
    /\ \E r \in requests :
          IF r.pk = NoId THEN PutChunkStart(p, r, TRUE, r.checksum)
          ELSE IF do_checksum_check /\ r.checksum = None THEN
              /\ Answer(p, About("POST", r.pk, FALSE),
                        ChunkedUploadError(HTTP_400_BAD_REQUEST,
                              "Both 'id' and 'md5' are required", None))
              /\ UNCHANGED <<db, storage, declared>>
          ELSE IF r.pk \in get_queryset(r.user) THEN
              /\ pc' = [pc EXCEPT ![p] = "post_check"]
              /\ req' = [req EXCEPT ![p] = [About("POST", r.pk, TRUE) EXCEPT
                                               !.checksum = r.checksum]]
              /\ obj' = [obj EXCEPT ![p] = db[r.pk]]
              /\ UNCHANGED <<db, storage, content, resp, declared>>
          ELSE
              /\ Answer(p, About("POST", r.pk, FALSE),
                        ChunkedUploadError(HTTP_404_NOT_FOUND, "Not found.", None))
              /\ UNCHANGED <<db, storage, declared>>
    /\ UNCHANGED now

\* PostCheck without the expiry test of is_valid_chunked_upload
PostCheck_NoExpiredCheck(p) ==
    /\ pc[p] = "post_check"
    /\ IF obj[p].status = COMPLETE THEN
           Answer(p, req[p], ChunkedUploadError(HTTP_400_BAD_REQUEST,
                       "Upload has already been marked as complete", None))
       ELSE
           /\ pc' = [pc EXCEPT ![p] = IF do_checksum_check THEN "post_checksum"
                                      ELSE "completed"]
           /\ UNCHANGED <<req, obj, content, resp>>
    /\ UNCHANGED <<now, db, storage, declared>>

\* _post, line 262: is_valid_chunked_upload.
PostCheck(p) ==
    /\ pc[p] = "post_check"
    /\ IF expired(obj[p]) THEN
           Answer(p, req[p], ChunkedUploadError(HTTP_410_GONE,
                                                "Upload has expired", None))
       ELSE IF obj[p].status = COMPLETE THEN
           Answer(p, req[p], ChunkedUploadError(HTTP_400_BAD_REQUEST,
                       "Upload has already been marked as complete", None))
       ELSE
           /\ pc' = [pc EXCEPT ![p] = IF do_checksum_check THEN "post_checksum"
                                      ELSE "completed"]
           /\ UNCHANGED <<req, obj, content, resp>>
    /\ UNCHANGED <<now, db, storage, declared>>

\* AbstractChunkedUpload.checksum: the digest of the stored file, read now
checksum(o) == hexdigest(storage[o.file])

\* _post, lines 264-265: checksum_check.
PostChecksum(p) ==
    /\ pc[p] = "post_checksum"
    /\ IF obj[p].file \notin DOMAIN storage THEN Answer(p, req[p], ServerError)
       ELSE IF checksum(obj[p]) # req[p].checksum THEN
           Answer(p, req[p], ChunkedUploadError(HTTP_400_BAD_REQUEST,
                                                "checksum does not match", None))
       ELSE
           /\ pc' = [pc EXCEPT ![p] = "completed"]
           /\ UNCHANGED <<req, obj, content, resp>>
    /\ UNCHANGED <<now, db, storage, declared>>

\* completed(completed_at=timezone.now()): the default is evaluated once, when
\* models.py is imported, which is when the server starts
completed_at_default == 0

\* completed(), lines 141-176, inside transaction.atomic: the instance gets
\* its final name, COMPLETE and completed_at and is saved, then the file is
\* renamed.  The saved row stays invisible to the other workers until the
\* commit; a rename that raises rolls the save back.
Completed(p) ==
    /\ pc[p] = "completed"
    /\ LET filename_ext == splitext(obj[p].filename)[2]
           original_path == obj[p].file
           name == <<splitext(obj[p].file)[1], filename_ext>>
           o == [obj[p] EXCEPT !.file = name, !.status = COMPLETE,
                               !.completed_at = completed_at_default]
       IN  IF original_path \notin DOMAIN storage THEN
               /\ Answer(p, req[p], ServerError)
               /\ UNCHANGED storage
           ELSE
               /\ storage' = [n \in (DOMAIN storage \ {original_path}) \cup {name}
                                 |-> IF n = name THEN storage[original_path]
                                     ELSE storage[n]]
               /\ obj' = [obj EXCEPT ![p] = o]
               /\ pc' = [pc EXCEPT ![p] = "commit"]
               /\ UNCHANGED <<req, content, resp>>
    /\ UNCHANGED <<now, db, declared>>

\* transaction.atomic commits; on_completion does nothing; _post answers 200.
Commit(p) ==
    /\ pc[p] = "commit"
    /\ db' = [db EXCEPT ![obj[p].id] = obj[p]]
    /\ Answer(p, req[p], Response(obj[p]))
    /\ UNCHANGED <<now, storage, declared>>

\* GET /uploads/{pk}/ and GET /uploads/: retrieve or list.
GetRequest(p, requests) ==
    /\ pc[p] = "idle"
    /\ \E r \in requests :
          IF r.pk = NoId THEN
              Answer(p, About("GET", r.pk, FALSE),
                     [status |-> HTTP_200_OK, detail |-> "list", offset |-> None])
          ELSE IF r.pk \in get_queryset(r.user)
              THEN Answer(p, About("GET", r.pk, TRUE), Response(db[r.pk]))
          ELSE Answer(p, About("GET", r.pk, FALSE),
                      ChunkedUploadError(HTTP_404_NOT_FOUND, "Not found.", None))
    /\ UNCHANGED <<now, db, storage, declared>>

\* The response has been sent; the worker takes the next request.
Return(p) ==
    /\ pc[p] = "done"
    /\ pc' = [pc EXCEPT ![p] = "idle"]
    /\ resp' = [resp EXCEPT ![p] = NoResponse]
    /\ req' = [req EXCEPT ![p] = NoReq]
    /\ UNCHANGED <<now, db, storage, obj, content, declared>>

\* append_chunk, line 114, when the storage raises during the write: the
\* file was truncated by the open of line 113 and holds the part of the copy
\* written so far; lines 120-129 are not reached and the exception leaves the
\* view.
AppendWriteFails(p) ==
    /\ pc[p] = "append_write"
    /\ \E n \in 0 .. Len(content[p]) - 1 :
          storage' = [f \in DOMAIN storage \cup {obj[p].file} |->
                         IF f = obj[p].file THEN SubSeq(content[p], 1, n)
                         ELSE storage[f]]
    /\ Answer(p, req[p], ServerError)
    /\ UNCHANGED <<now, db, declared>>

\* OnCompletionRaises inside the transaction of completed(): the save is
\* rolled back with the exception
OnCompletionRaises_RolledBack(p) ==
    /\ pc[p] = "commit"
    /\ Answer(p, req[p], ServerError)
    /\ UNCHANGED <<now, db, storage, declared>>

\* transaction.atomic commits when completed() returns (line 267); then a
\* subclass's on_completion raises (line 269) and the exception leaves the
\* view.
OnCompletionRaises(p) ==
    /\ pc[p] = "commit"
    /\ db' = [db EXCEPT ![obj[p].id] = obj[p]]
    /\ Answer(p, req[p], ServerError)
    /\ UNCHANGED <<now, storage, declared>>

\* ChunkedUpload.delete(delete_file), as the admin calls it on a row:
\* super(ChunkedUpload, self).delete resolves to AbstractChunkedUpload.delete,
\* this method, so the call recurses until RecursionError; transaction.atomic
\* rolls back and delete_file is not reached.
Delete(p, delete_file) ==
    /\ pc[p] = "idle"
    /\ \E id \in DOMAIN db :
          Answer(p, About(IF delete_file THEN "DELETE" ELSE "DELETE_ROW", id, TRUE),
                 ServerError)
    /\ UNCHANGED <<now, db, storage, declared>>

\* Two workers and one client sending one-byte chunks, every request inside
\* the expiration window.
ConcurrentChunks == {<<0>>, <<1>>}
ConcurrentDigests == {hexdigest(b) : b \in {<<0>>, <<0, 1>>}}
ConcurrentPuts == PutRequests({"alice"}, {MAX_BYTES}, ConcurrentChunks)
ConcurrentPosts == PostRequests({"alice"}, ConcurrentChunks, ConcurrentDigests)
ConcurrentGets == GetRequests({"alice"})
Next ==
    \E p \in Workers :
        \/ PutRequest(p, ConcurrentPuts)
        \/ PostRequest(p, ConcurrentPosts)
        \/ GetRequest(p, ConcurrentGets)
        \/ PutCheck(p)
        \/ AppendRead(p)
        \/ AppendOpen(p)
        \/ AppendWrite(p)
        \/ AppendSave(p)
        \/ PostCheck(p)
        \/ PostChecksum(p)
        \/ Completed(p)
        \/ Commit(p)
        \/ Return(p)

\* One worker, every client and chunk, and the clock.
SeqPuts == PutRequests(Users, MAX_BYTES - 1 .. MAX_BYTES, Chunks)
SeqPosts == PostRequests(Users, Chunks, Digests)
SeqGets == GetRequests(Users)
NextSeq ==
    \/ Tick
    \/ \E p \in SeqWorkers :
        \/ PutRequest(p, SeqPuts)
        \/ PostRequest(p, SeqPosts)
        \/ GetRequest(p, SeqGets)
        \/ PutCheck(p)
        \/ AppendRead(p)
        \/ AppendOpen(p)
        \/ AppendWrite(p)
        \/ AppendSave(p)
        \/ PostCheck(p)
        \/ PostChecksum(p)
        \/ Completed(p)
        \/ Commit(p)
        \/ Return(p)

\* One worker and one client, with storage writes that fail, an on_completion
\* override that raises, and deletes.
FaultPuts == PutRequests({"alice"}, {MAX_BYTES}, Chunks)
FaultPosts == PostRequests({"alice"}, Chunks, Digests)
NextFaults ==
    \E p \in SeqWorkers :
        \/ PutRequest(p, FaultPuts)
        \/ PostRequest(p, FaultPosts)
        \/ PutCheck(p)
        \/ AppendRead(p)
        \/ AppendOpen(p)
        \/ AppendWrite(p)
        \/ AppendWriteFails(p)
        \/ AppendSave(p)
        \/ PostCheck(p)
        \/ PostChecksum(p)
        \/ Completed(p)
        \/ Commit(p)
        \/ OnCompletionRaises(p)
        \/ Delete(p, TRUE)
        \/ Delete(p, FALSE)
        \/ Return(p)

\* One worker and one client, with every total up to the limit and with the
\* ranges that end at or past their total: the pattern of line 97 matches any
\* three numbers.  OverlongPuts opens a session with 'bytes 0-M/M' and M + 1
\* bytes, M the limit.
OverlongPuts ==
    {[user |-> "alice", pk |-> NoId, has_file |-> TRUE,
      range |-> [ok |-> TRUE, start |-> 0, end |-> MAX_BYTES, total |-> MAX_BYTES],
      chunk |-> [i \in 1 .. MAX_BYTES + 1 |-> 0], filename |-> f] : f \in Filenames}
LimitPuts == PutRequests({"alice"}, 1 .. MAX_BYTES, Chunks) \cup OverlongPuts
LimitPosts == PostRequests({"alice"}, Chunks, Digests)
NextLimit ==
    \E p \in SeqWorkers :
        \/ PutRequest(p, LimitPuts)
        \/ PostRequest(p, LimitPosts)
        \/ PutCheck(p)
        \/ AppendRead(p)
        \/ AppendOpen(p)
        \/ AppendWrite(p)
        \/ AppendSave(p)
        \/ PostCheck(p)
        \/ PostChecksum(p)
        \/ Completed(p)
        \/ Commit(p)
        \/ Return(p)

Spec == Init /\ [][Next]_vars
SpecSeq == InitSeq /\ [][NextSeq]_vars
SpecFaults == InitSeq /\ [][NextFaults]_vars
SpecLimit == InitSeq /\ [][NextLimit]_vars

\* ------------------------------------------------------------------ claims
Quiescent(workers) == \A p \in workers : pc[p] \in {"idle", "done"}
OffsetMismatch(offset) ==
    ChunkedUploadError(HTTP_400_BAD_REQUEST, "Offsets do not match", offset)
SessionAlreadyComplete ==
    ChunkedUploadError(HTTP_400_BAD_REQUEST,
                       "Upload has already been marked as complete", None)
SessionExpired == ChunkedUploadError(HTTP_410_GONE, "Upload has expired", None)

\* C1: with requests handled one at a time, whenever no request is in flight
\* every row's offset is the byte length of the file the row names.
C1_OffsetIsBlobLength ==
    Quiescent(SeqWorkers) =>
        \A id \in DOMAIN db :
            /\ db[id].file \in DOMAIN storage
            /\ db[id].offset = Len(storage[db[id].file])
\* a session that got a second chunk and was completed
C1_Witness ==
    /\ Quiescent(SeqWorkers)
    /\ \E id \in DOMAIN db : db[id].offset = 2 /\ db[id].status = COMPLETE

\* C2 as claimed: a PUT that reaches the session checks with a start that
\* differs from the persisted offset is answered OffsetMismatch with that
\* offset, whatever else holds of the session, and changes nothing.
C2_AlwaysOffsetMismatch ==
    [][\A p \in SeqWorkers :
          (/\ pc[p] = "put_check" /\ pc'[p] # "put_check"
           /\ db[obj[p].id].offset # req[p].start)
          => /\ pc'[p] = "done"
             /\ resp'[p] = OffsetMismatch(db[obj[p].id].offset)
             /\ db' = db /\ storage' = storage]_vars
\* C2 as amended: such a PUT is always rejected and changes nothing; it is
\* answered OffsetMismatch with the persisted offset when the session has not
\* expired and is not COMPLETE, which the handler tests first.
C2_OffsetMismatch ==
    [][\A p \in SeqWorkers :
          (/\ pc[p] = "put_check" /\ pc'[p] # "put_check"
           /\ db[obj[p].id].offset # req[p].start)
          => /\ pc'[p] = "done"
             /\ resp'[p].status \in {HTTP_400_BAD_REQUEST, HTTP_410_GONE}
             /\ db' = db /\ storage' = storage
             /\ (db[obj[p].id].created_at + EXPIRATION_DELTA > now
                    /\ db[obj[p].id].status = UPLOADING)
                 => resp'[p] = OffsetMismatch(db[obj[p].id].offset)]_vars
\* a PUT answered OffsetMismatch with the offset of a session holding a byte
C2_Witness ==
    \E p \in SeqWorkers :
        /\ pc[p] = "done" /\ req[p].method = "PUT" /\ req[p].pk \in DOMAIN db
        /\ resp[p] = OffsetMismatch(1) /\ db[req[p].pk].offset = 1

\* C3: PUT-chunk requests on one session are serialized: of two overlapping
\* PUTs on the same session that declare the same start, at most one is
\* accepted.  The chunks are not empty, so two accepted PUTs that answer the
\* same new offset declared the same start.
C3_Serialized ==
    \A p \in Workers : \A q \in Workers \ {p} :
        (/\ pc[p] = "done" /\ pc[q] = "done"
         /\ req[p].method = "PUT" /\ req[q].method = "PUT"
         /\ req[p].pk # NoId /\ req[p].pk = req[q].pk
         /\ resp[p].status = HTTP_200_OK /\ resp[q].status = HTTP_200_OK)
        => resp[p].offset # resp[q].offset

\* C4: finalize is atomic with respect to appends: no append writes the file
\* or saves the row of a session that is COMPLETE or whose finalize has
\* passed its validity check.
C4_FinalizeAtomic ==
    [][\A p \in Workers :
          (pc[p] \in {"append_open", "append_write", "append_save"}
              /\ pc'[p] # pc[p])
          => /\ db[obj[p].id].status # COMPLETE
             /\ \A q \in Workers \ {p} :
                   ~(pc[q] \in {"post_checksum", "completed", "commit"}
                        /\ obj[q].id = obj[p].id)]_vars

\* C5: a row's status only moves from UPLOADING to COMPLETE: a COMPLETE row
\* stays COMPLETE with the completed_at it got, and completed_at is written
\* at that transition and only there.
C5_CompleteOnce ==
    [][\A id \in DOMAIN db :
          /\ db[id].status = COMPLETE
                => db'[id].status = COMPLETE
                   /\ db'[id].completed_at = db[id].completed_at
          /\ db[id].status = UPLOADING
                => /\ db[id].completed_at = None
                   /\ (db'[id].status = UPLOADING => db'[id].completed_at = None)
                   /\ (db'[id].status = COMPLETE => db'[id].completed_at # None)]_vars

\* C6 as claimed: a PUT that reaches the session checks of a COMPLETE session
\* is answered SessionAlreadyComplete and changes nothing.
C6_AlwaysAlreadyComplete ==
    [][\A p \in SeqWorkers :
          (/\ pc[p] = "put_check" /\ pc'[p] # "put_check"
           /\ db[obj[p].id].status = COMPLETE)
          => /\ pc'[p] = "done"
             /\ resp'[p] = SessionAlreadyComplete
             /\ db' = db /\ storage' = storage]_vars
\* C6 as amended: such a PUT is always rejected and changes nothing; it is
\* answered SessionAlreadyComplete unless the session has expired, and
\* SessionExpired when it has.
C6_AlreadyComplete ==
    [][\A p \in SeqWorkers :
          (/\ pc[p] = "put_check" /\ pc'[p] # "put_check"
           /\ db[obj[p].id].status = COMPLETE)
          => /\ pc'[p] = "done"
             /\ db' = db /\ storage' = storage
             /\ resp'[p] = IF db[obj[p].id].created_at + EXPIRATION_DELTA > now
                           THEN SessionAlreadyComplete ELSE SessionExpired]_vars
\* a PUT on a COMPLETE session answered SessionAlreadyComplete
C6_Witness ==
    \E p \in SeqWorkers :
        /\ pc[p] = "done" /\ req[p].method = "PUT" /\ req[p].pk \in DOMAIN db
        /\ resp[p] = SessionAlreadyComplete
        /\ db[req[p].pk].status = COMPLETE

\* C7 as claimed: every request that finds a session which had expired when
\* the request arrived is answered SessionExpired.
C7_AnyOperationExpired ==
    \A p \in SeqWorkers :
        (pc[p] = "done" /\ req[p].late /\ req[p].loaded)
        => resp[p] = SessionExpired
\* C7 as amended: a PUT or POST that finds such a session never passes the
\* validity check and is answered SessionExpired; a GET is answered 200.
C7_PutPostExpired ==
    \A p \in SeqWorkers :
        (req[p].late /\ req[p].loaded)
        => /\ pc[p] \in {"put_check", "post_check", "done"}
           /\ (pc[p] = "done" /\ req[p].method \in {"PUT", "POST"})
                 => resp[p] = SessionExpired
           /\ (pc[p] = "done" /\ req[p].method = "GET")
                 => resp[p].status = HTTP_200_OK
\* a POST complete on an expired session answered 410
C7_Witness ==
    \E p \in SeqWorkers :
        /\ pc[p] = "done" /\ req[p].late /\ req[p].loaded
        /\ req[p].method = "POST" /\ resp[p] = SessionExpired

\* C8: no step of a request that arrived after its session expired changes
\* a row or a file.
C8_ExpiredIsTerminal ==
    [][\A p \in SeqWorkers :
          ((req[p].late \/ req'[p].late) /\ pc'[p] # pc[p])
          => db' = db /\ storage' = storage]_vars
\* a PUT on an expired session was answered 410 and the session is UPLOADING
C8_Witness ==
    \E p \in SeqWorkers :
        /\ pc[p] = "done" /\ req[p].late /\ req[p].method = "PUT"
        /\ resp[p].status = HTTP_410_GONE
        /\ db[req[p].pk].status = UPLOADING

\* C9: when a POST complete is answered 200, the digest of the file the row
\* names is the digest the client declared.
C9_ChecksumOfFinalBlob ==
    [][\A p \in Workers :
          (pc[p] = "commit" /\ pc'[p] = "done")
          => /\ db'[obj[p].id].file \in DOMAIN storage'
             /\ hexdigest(storage'[db'[obj[p].id].file]) = req[p].checksum]_vars

\* C10: the chunks of a session were accepted in order, the first from 0,
\* with one total T, and the last ended at T - 1: the file is T bytes long
\* and the offset is T; a POST complete on that session that passes the
\* validity check and declares the digest of the file goes through every
\* step and leaves the row COMPLETE.
C10_InOrderUpload ==
    [][/\ Quiescent(SeqWorkers)' =>
            \A id \in DOMAIN db' :
               (declared'[id].total # None
                   /\ declared'[id].end = declared'[id].total - 1)
               => /\ Len(storage'[db'[id].file]) = declared'[id].total
                  /\ db'[id].offset = declared'[id].total
       /\ \A p \in SeqWorkers :
            (/\ pc[p] \in {"post_check", "post_checksum", "completed", "commit"}
             /\ pc'[p] # pc[p]
             /\ declared[obj[p].id].total # None
             /\ declared[obj[p].id].end = declared[obj[p].id].total - 1)
            => /\ (pc[p] = "post_check" /\ obj[p].created_at + EXPIRATION_DELTA > now
                      /\ obj[p].status = UPLOADING)
                  => pc'[p] = "post_checksum"
               /\ (pc[p] = "post_checksum"
                      /\ req[p].checksum = hexdigest(storage[obj[p].file]))
                  => pc'[p] = "completed"
               /\ pc[p] = "completed" => pc'[p] = "commit"
               /\ pc[p] = "commit"
                  => /\ resp'[p].status = HTTP_200_OK
                     /\ db'[obj[p].id].status = COMPLETE
                     /\ db'[obj[p].id].offset = declared[obj[p].id].total]_vars
\* the upload bytes 0-0/2, bytes 1-1/2 was completed by a POST with its pk
C10_Witness ==
    \E p \in SeqWorkers :
        /\ pc[p] = "done" /\ req[p].method = "POST" /\ req[p].pk \in DOMAIN db
        /\ resp[p].status = HTTP_200_OK
        /\ declared[req[p].pk] = [total |-> 2, end |-> 1]
        /\ db[req[p].pk].status = COMPLETE

\* the PUT requests of _put_chunk's range, limit and length checks: a file
\* with a malformed Content-Range, a total over MAX_BYTES or a declared length
\* that is not the chunk's
RejectedPuts ==
    {q : q \in {r \in SeqPuts :
        /\ r.has_file
        /\ \/ ~r.range.ok
           \/ r.range.total > MAX_BYTES
           \/ r.range.end - r.range.start + 1 # Len(r.chunk)}}

C12_RetrySafe ==
    [][\A p \in SeqWorkers :
          /\ (pc[p] = "append_write" /\ pc'[p] = "done") => db' = db
          /\ (pc[p] = "append_save" /\ pc'[p] = "done")
                => /\ db'[obj[p].id].file \in DOMAIN storage'
                   /\ db'[obj[p].id].offset
                         = Len(storage'[db'[obj[p].id].file])]_vars

\* C13: completed_at is the time at which the finalize ran: completed() sets
\* it to the clock's value, which is not earlier than created_at.
C13_CompletedAtIsFinalizeTime ==
    [][\A p \in SeqWorkers :
          (pc[p] = "completed" /\ pc'[p] = "commit")
          => /\ obj'[p].completed_at = now
             /\ obj'[p].completed_at >= obj'[p].created_at]_vars

\* C14: with USER_RESTRICTED, a GET, PUT or POST that names a session owned by
\* another user than the requester, an unauthenticated requester included,
\* never gets the row: a GET is answered 404, a PUT or POST 404 or the 400 of
\* a request check, and no row or file changes.
C14_OwnerOnly ==
    [][\A p \in SeqWorkers :
          LET foreign(r) == /\ r.pk \in DOMAIN db
                            /\ db[r.pk].user # "none"
                            /\ db[r.pk].user # r.user
              refused == /\ pc'[p] = "done"
                         /\ resp'[p].status \in {HTTP_400_BAD_REQUEST,
                                                 HTTP_404_NOT_FOUND}
                         /\ db' = db /\ storage' = storage
          IN  pc[p] = "idle" =>
              /\ \A r \in SeqGets :
                    (foreign(r) /\ GetRequest(p, {r}))
                    => resp'[p].status = HTTP_404_NOT_FOUND
              /\ \A r \in SeqPuts : (foreign(r) /\ PutRequest(p, {r})) => refused
              /\ \A r \in SeqPosts : (foreign(r) /\ PostRequest(p, {r})) => refused]_vars

\* C15: on_completion runs after the completion is persisted: when _post
\* leaves the completion, whether on_completion returned or raised, the row
\* is COMPLETE with its completed_at and names the renamed file, which the
\* storage holds under that name only.
C15_HookAfterCompletion ==
    [][\A p \in SeqWorkers :
          (pc[p] = "commit" /\ pc'[p] = "done")
          => LET row == db'[obj[p].id]
             IN  /\ row.status = COMPLETE
                 /\ row.completed_at # None
                 /\ row.file = <<row.id, row.filename[2]>>
                 /\ row.file \in DOMAIN storage'
                 /\ default_upload_to(row.id) \notin DOMAIN storage'
                 /\ storage' = storage]_vars
\* a POST complete whose on_completion raised: answered 500, row COMPLETE
C15_Witness ==
    \E p \in SeqWorkers :
        /\ pc[p] = "done" /\ req[p].method = "POST" /\ resp[p] = ServerError
        /\ req[p].pk \in DOMAIN db
        /\ db[req[p].pk].status = COMPLETE
        /\ db[req[p].pk].file \in DOMAIN storage

\* C16: the rewrite of a file is atomic for concurrent readers: when a worker
\* reads a file (the copy of an append or the checksum of a POST) that another
\* worker's append has opened for writing, it finds the content that append
\* copied or that content followed by its chunk.
C16_AtomicRewrite ==
    [][\A q \in Workers : \A p \in Workers \ {q} :
          (/\ pc[q] \in {"append_read", "post_checksum"} /\ pc'[q] # pc[q]
           /\ pc[p] = "append_write"
           /\ obj[p].file = obj[q].file /\ obj[q].file \in DOMAIN storage)
          => storage[obj[q].file]
                \in {SubSeq(content[p], 1, Len(content[p]) - Len(req[p].chunk)),
                     content[p]}]_vars

\* C17: no step lowers the persisted offset of a row.
C17_OffsetMonotonic ==
    [][\A id \in DOMAIN db : db'[id].offset >= db[id].offset]_vars

\* C18: after delete(delete_file=True) neither the row nor its file exists;
\* after delete(delete_file=False) the row is gone.
C18_DeleteRemoves ==
    \A p \in SeqWorkers :
        (pc[p] = "done" /\ req[p].method \in {"DELETE", "DELETE_ROW"})
        => /\ req[p].pk \notin DOMAIN db
           /\ req[p].method = "DELETE"
                 => \A f \in DOMAIN storage : f[1] # req[p].pk

\* C19: a PUT or POST answered with an error changes nothing: the step that
\* answers it leaves the rows and files as they were, and a request without
\* a pk that is answered an error has created no session.
C19_ErrorChangesNothing ==
    [][\A p \in SeqWorkers :
          (/\ pc[p] # "done" /\ pc'[p] = "done"
           /\ req'[p].method \in {"PUT", "POST"}
           /\ resp'[p].status # HTTP_200_OK)
          => /\ db' = db /\ storage' = storage
             /\ req'[p].pk = NoId => ~req'[p].loaded]_vars

\* C20: every accepted chunk starts where the stored bytes end: a PUT without
\* a pk that creates a session declares start 0, and a PUT that passes the
\* session checks declares the length of the stored file.
C20_StartIsStoredBytes ==
    [][\A p \in SeqWorkers :
          /\ \A r \in SeqPuts :
                (/\ pc[p] = "idle" /\ r.pk = NoId /\ r.has_file /\ r.range.ok
                 /\ PutRequest(p, {r})
                 /\ resp'[p].status = HTTP_200_OK)
                => r.range.start = 0
          /\ (pc[p] = "put_check" /\ pc'[p] = "append_read")
                => /\ obj[p].file \in DOMAIN storage
                   /\ req[p].start = Len(storage[obj[p].file])]_vars

\* C21: with the limit MAX_BYTES configured, no step leaves a session with an
\* offset or a stored file over MAX_BYTES, and a chunk that is accepted, the
\* one that opens a session or one appended to it, leaves the session's offset
\* at or under the total that chunk declared.
C21_WithinLimitAndTotal ==
    [][/\ \A id \in DOMAIN db' :
             /\ db'[id].offset <= MAX_BYTES
             /\ db'[id].file \in DOMAIN storage'
                   => Len(storage'[db'[id].file]) <= MAX_BYTES
       /\ \A p \in SeqWorkers :
             /\ \A r \in LimitPuts :
                   (/\ pc[p] = "idle" /\ r.pk = NoId /\ r.has_file /\ r.range.ok
                    /\ PutRequest(p, {r})
                    /\ resp'[p].status = HTTP_200_OK)
                   => \A id \in DOMAIN db' \ DOMAIN db :
                         db'[id].offset <= r.range.total
             /\ (/\ pc[p] = "append_save" /\ pc'[p] = "done"
                 /\ resp'[p].status = HTTP_200_OK)
                   => db'[obj[p].id].offset <= req[p].total]_vars
====
